---- MODULE Spec2Model ----
(***************************************************************************)
(* Model of src/master.py: the scraper behind the "bandi" dashboard.       *)
(*                                                                         *)
(* Text is a sequence of one-character strings, so that lower(), the       *)
(* substring test of _guess_tags and the regular expression of _clean_html *)
(* are computed and not assumed.  A deadline string is a record            *)
(* [kind, day]: `kind' is the shape of the text (what decides whether      *)
(* dateutil parses it, with or without fuzzy=True, and whether the result  *)
(* carries a UTC offset) and `day' the date it denotes, counted in days    *)
(* from datetime.today().  A DataFrame is the sequence of its rows; the    *)
(* frame built from no rows, pd.DataFrame([]), has no columns.             *)
(***************************************************************************)
EXTENDS Integers, Sequences, FiniteSets, TLC

\* ------------------------------------------------------------------ bounds
\* words in a title handed to _guess_tags
MaxWords == 2
\* raw items (API items, CKAN records, HTML cards, feed items) in a snapshot
MaxItems == 2
\* calls of load_bandi() against one snapshot
MaxCalls == 2

\* -------------------------------------------------------- program constants
SCADENZA_GIORNI == 30
\* fetch_altoadige(pages: int = 1)
Pages == 1
\* fetch_pat(limit: int = 50)
PatLimit == 50

\* ------------------------------------------------------------------- text
\* Python's None, where a text is expected
None == << "None" >>

UpperToLower ==
  [c \in {"A", "B", "C", "D", "E", "F", "G", "H", "I", "J", "K", "L", "M",
          "N", "O", "P", "Q", "R", "S", "T", "U", "V", "W", "X", "Y", "Z"} |->
     CASE c = "A" -> "a" [] c = "B" -> "b" [] c = "C" -> "c" [] c = "D" -> "d"
       [] c = "E" -> "e" [] c = "F" -> "f" [] c = "G" -> "g" [] c = "H" -> "h"
       [] c = "I" -> "i" [] c = "J" -> "j" [] c = "K" -> "k" [] c = "L" -> "l"
       [] c = "M" -> "m" [] c = "N" -> "n" [] c = "O" -> "o" [] c = "P" -> "p"
       [] c = "Q" -> "q" [] c = "R" -> "r" [] c = "S" -> "s" [] c = "T" -> "t"
       [] c = "U" -> "u" [] c = "V" -> "v" [] c = "W" -> "w" [] c = "X" -> "x"
       [] c = "Y" -> "y" [] c = "Z" -> "z"]

\* str.lower()
lower(text) ==
  [i \in 1..Len(text) |->
     IF text[i] \in DOMAIN UpperToLower THEN UpperToLower[text[i]] ELSE text[i]]

\* Python's `k in s' on strings
Contains(k, s) ==
  \E i \in 0..(Len(s) - Len(k)) : SubSeq(s, i + 1, i + Len(k)) = k

\* str.strip()
strip(s) ==
  LET ink == {i \in 1..Len(s) : s[i] # " "}
  IN  IF ink = {} THEN <<>>
      ELSE SubSeq(s, CHOOSE i \in ink : \A j \in ink : i <= j,
                     CHOOSE i \in ink : \A j \in ink : j <= i)

\* re.sub(r"<[^>]+>", " ", txt) from position i on: a match is "<", one or
\* more characters other than ">", and the first ">" after them
RECURSIVE SubMarkup(_, _)
SubMarkup(txt, i) ==
  IF i > Len(txt) THEN <<>>
  ELSE LET closing == {j \in (i + 1)..Len(txt) : txt[j] = ">"}
           first == CHOOSE j \in closing : \A k \in closing : j <= k
       IN  IF txt[i] = "<" /\ closing # {} /\ first >= i + 2
           THEN <<" ">> \o SubMarkup(txt, first + 1)
           ELSE <<txt[i]>> \o SubMarkup(txt, i + 1)

_clean_html(txt) ==
  IF txt = None \/ txt = <<>> THEN <<>> ELSE strip(SubMarkup(txt, 1))

\* --------------------------------------------------------------- taxonomy
ST_TAGS ==
  << [tag |-> "eventi", keywords |->
        << <<"e", "v", "e", "n", "t", "o">>,
           <<"m", "a", "n", "i", "f", "e", "s", "t", "a", "z", "i", "o", "n", "e">>,
           <<"f", "e", "s", "t", "i", "v", "a", "l">>,
           <<"f", "i", "e", "r", "a">> >>],
     [tag |-> "turismo", keywords |->
        << <<"t", "u", "r", "i", "s", "m", "o">>,
           <<"t", "u", "r", "i", "s", "t", "i", "c", "a">> >>],
     [tag |-> "tech", keywords |->
        << <<"t", "e", "c", "h">>,
           <<"d", "i", "g", "i", "t", "a", "l">>,
           <<"i", "c", "t">>,
           <<"h", "a", "c", "k", "a", "t", "h", "o", "n">> >>],
     [tag |-> "marketing", keywords |->
        << <<"m", "a", "r", "k", "e", "t", "i", "n", "g">>,
           <<"p", "r", "o", "m", "o", "z", "i", "o", "n", "e">>,
           <<"c", "o", "m", "u", "n", "i", "c", "a", "z", "i", "o", "n", "e">> >>],
     [tag |-> "cultura", keywords |->
        << <<"c", "u", "l", "t", "u", "r">>,
           <<"m", "u", "s", "e", "o">>,
           <<"s", "p", "e", "t", "t", "a", "c", "o", "l", "o">> >>] >>

\* any(k in text_l for k in keywords)
AnyKeyword(keywords, text_l) ==
  \E n \in 1..Len(keywords) : Contains(keywords[n], text_l)

\* the loop of _guess_tags over ST_TAGS.items(), from entry i on
RECURSIVE TagLoop(_, _)
TagLoop(text_l, i) ==
  IF i > Len(ST_TAGS) THEN <<>>
  ELSE (IF AnyKeyword(ST_TAGS[i].keywords, text_l)
        THEN <<ST_TAGS[i].tag>> ELSE <<>>) \o TagLoop(text_l, i + 1)

\* a plausible slip: the fallback of `tags or ["varie"]' left out
GuessTagsNoFallback(text) == TagLoop(lower(text), 1)

_guess_tags(text) ==
  LET tags == TagLoop(lower(text), 1)
  IN  IF tags = <<>> THEN <<"varie">> ELSE tags

\* ---------------------------------------------------------------- dates
\* shapes of a deadline text
\*   empty   ""   (a null field, None, is falsy like it and is modelled by it)
\*   aperto  "Aperto"
\*   dmy     "dd/mm/yyyy"
\*   phrase  "entro il dd/mm/yyyy"        words around a date
\*   iso_tz  "yyyy-mm-ddT12:00:00+02:00"  a timestamp with a UTC offset
\*   bad_dmy "99/99/2025"                 digits that are no date
\*   words   "da definire"
DeadlineKinds == {"empty", "aperto", "dmy", "phrase", "iso_tz", "bad_dmy", "words"}
DatedKinds == {"dmy", "phrase", "iso_tz"}
DayOffsets == {-5, 10, 40}

Str(kind) == [kind |-> kind, day |-> 0]
Dated(kind, day) == [kind |-> kind, day |-> day]
Aperto == Str("aperto")

DeadlineStrings ==
  {Str(k) : k \in DeadlineKinds \ DatedKinds}
    \cup {Dated(k, d) : k \in DatedKinds, d \in DayOffsets}

\* dtparser.parse(s, dayfirst=True, fuzzy=fuzzy): a datetime, naive or aware,
\* or an exception (ok = FALSE)
ParseError == [ok |-> FALSE, aware |-> FALSE, day |-> 0]
dtparse(s, fuzzy) ==
  CASE s.kind = "dmy" -> [ok |-> TRUE, aware |-> FALSE, day |-> s.day]
    [] s.kind = "iso_tz" -> [ok |-> TRUE, aware |-> TRUE, day |-> s.day]
    [] s.kind = "phrase" ->
         IF fuzzy THEN [ok |-> TRUE, aware |-> FALSE, day |-> s.day]
         ELSE ParseError
    [] OTHER -> ParseError

\* datetime.today() is naive: comparing an aware datetime with it raises
\* TypeError inside the try block, and `except Exception' answers True
_within_next_days(date_str, days) ==
  IF date_str.kind = "empty" THEN TRUE
  ELSE LET dt == dtparse(date_str, TRUE)
       IN  IF ~dt.ok THEN TRUE
           ELSE IF dt.aware THEN TRUE
           ELSE dt.day <= days

\* ------------------------------------------------------- source responses
\* {}: a dict without keys
EmptyDict == [k \in {} |-> k]

\* dict.get(key, default)
Get(d, key, default) == IF key \in DOMAIN d THEN d[key] ELSE default

\* str(uuid.uuid4()): a token no earlier call returned
Uuid(n) == "uuid4-" \o ToString(n)

\* "<b>Fiera</b> TECH"
TitleMarkup ==
  <<"<", "b", ">", "F", "i", "e", "r", "a", "<", "/", "b", ">", " ", "T", "E", "C", "H">>
\* "Bando"
TitleBando == <<"B", "a", "n", "d", "o">>
\* "Gara turismo"
TitleTurismo == <<"G", "a", "r", "a", " ", "t", "u", "r", "i", "s", "m", "o">>
\* "(senza titolo)"
SenzaTitolo ==
  <<"(", "s", "e", "n", "z", "a", " ", "t", "i", "t", "o", "l", "o", ")">>

\* In a feed title, the text that re.search(r"scadenza:?\s*(\d{2}/\d{2}/\d{4})")
\* matches is one symbol of the sequence; its group(1) is the date it holds.
ScadenzaIn10 == "scadenza: dd/mm/yyyy, 10 days on"
ScadenzaIn40 == "scadenza: dd/mm/yyyy, 40 days on"
ScadenzaNoDate == "scadenza: 99/99/2025"
ScadenzaGroup ==
  (ScadenzaIn10 :> Dated("dmy", 10)) @@ (ScadenzaIn40 :> Dated("dmy", 40))
    @@ (ScadenzaNoDate :> Str("bad_dmy"))

\* the items a source may hold: the JSON items of the Comune di Trento API,
\* the CKAN records, the cards of a listing page, the items of the feed
TrentoItems ==
  { [uid |-> "A", title |-> TitleMarkup,
     properties |-> [dataScadenza |-> Dated("dmy", 10), importoBase |-> "5000"]],
    [uid |-> "A", title |-> TitleBando, url |-> "/bando/a", properties |-> EmptyDict],
    [title |-> TitleBando, id |-> "77",
     properties |-> [dataScadenza |-> Dated("iso_tz", 40)]],
    [uid |-> "B", title |-> TitleBando,
     properties |-> [dataScadenza |-> Dated("dmy", 40)]] }

CkanItems ==
  { [idGara |-> "A", oggetto |-> TitleTurismo, scadenza |-> Dated("dmy", -5),
     stazioneAppaltante |-> "APAC", urlGara |-> "/gara/a"],
    [oggetto |-> TitleBando, scadenza |-> Dated("phrase", 10)],
    [idGara |-> "B", oggetto |-> TitleBando, scadenza |-> Str("empty"),
     urlBando |-> "/bando/b", urlGara |-> "/gara/b"],
    [idGara |-> "B", scadenza |-> Str("words"), importoBaseAsta |-> "900"] }

AltoAdigeCards ==
  { [h2 |-> [text |-> TitleTurismo, a |-> [href |-> "card/1"]],
     scadenza |-> Dated("phrase", 10)],
    [h2 |-> [text |-> TitleBando, a |-> [href |-> "card/2"]]],
    [scadenza |-> Dated("dmy", 10)],
    [h2 |-> [text |-> TitleBando], scadenza |-> Dated("dmy", 40)],
    [h2 |-> [text |-> TitleBando, a |-> EmptyDict]] }

PatItems ==
  { [title |-> TitleBando \o <<" ", ScadenzaIn10>>, link |-> "A"],
    [title |-> TitleMarkup, link |-> "P"],
    [title |-> <<ScadenzaIn40, " ">> \o TitleBando, link |-> "P"],
    [title |-> TitleTurismo \o <<" ", ScadenzaNoDate>>, link |-> "B"],
    [link |-> "P"] }

\* What one HTTP GET yields: the body (its items), no response at all
\* ("unreachable": requests.get or raise_for_status raises), or a body that
\* is not the expected JSON ("malformed": resp.json() or a subscript raises).
SeqsUpTo(S, n) == UNION {[1..m -> S] : m \in 0..n}
Ok(body) == [status |-> "ok", body |-> body]
Failure(status) == [status |-> status, body |-> <<>>]
Unset == Failure("unset")

TrentoResponses(n) ==
  {Failure("unreachable"), Failure("malformed")}
    \cup {Ok(b) : b \in SeqsUpTo(TrentoItems, n)}
CkanResponses(n) ==
  {Failure("unreachable"), Failure("malformed")}
    \cup {Ok(b) : b \in SeqsUpTo(CkanItems, n)}
\* a sum of lengths
RECURSIVE Cards(_, _)
Cards(pages, p) ==
  IF p > Len(pages) THEN 0 ELSE Len(pages[p].body) + Cards(pages, p + 1)
\* one response per requested page
AltoAdigeResponses(n) ==
  {r \in [1..Pages -> {Failure("unreachable")}
                        \cup {Ok(b) : b \in SeqsUpTo(AltoAdigeCards, n)}] :
     Cards(r, 1) <= n}
PatResponses(n) ==
  {Failure("unreachable")} \cup {Ok(b) : b \in SeqsUpTo(PatItems, n)}

\* --------------------------------------------------------------- adapters
\* what a call of an adapter comes to: the DataFrame it returns or an
\* exception, and the uuid4 tokens drawn so far
Returns(items, u) == [raised |-> FALSE, df |-> items, uuid |-> u]
Raises(u) == [raised |-> TRUE, df |-> <<>>, uuid |-> u]

Notice(id, title, entity, deadline, amount, tags, link) ==
  [id |-> id, title |-> title, entity |-> entity, deadline |-> deadline,
   amount |-> amount, tags |-> tags, link |-> link]

\* `deadline or "Aperto"'
OrAperto(deadline) == IF deadline.kind = "empty" THEN Aperto ELSE deadline

\* the loop of fetch_trento over data, from item i on
RECURSIVE TrentoLoop(_, _, _, _)
TrentoLoop(data, i, items, u) ==
  IF i > Len(data) THEN Returns(items, u)
  ELSE LET itm == data[i]
           prop == Get(itm, "properties", EmptyDict)
           title == _clean_html(Get(itm, "title", None))
           deadline == Get(prop, "dataScadenza", Str("empty"))
           link == Get(itm, "url", Get(itm, "id", ""))
           base == Get(prop, "importoBase", "")
           amount == IF base = "" THEN "-" ELSE base
       IN  IF _within_next_days(deadline, SCADENZA_GIORNI)
           THEN TrentoLoop(data, i + 1,
                  Append(items,
                    Notice(Get(itm, "uid", Uuid(u)), title, "Comune di Trento",
                           OrAperto(deadline), amount, _guess_tags(title), link)),
                  u + 1)
           ELSE TrentoLoop(data, i + 1, items, u)

\* requests.get, raise_for_status and resp.json() stand outside any try
fetch_trento(resp, u) ==
  IF resp.status # "ok" THEN Raises(u) ELSE TrentoLoop(resp.body, 1, <<>>, u)

\* the loop of fetch_ckan over records, from record i on
RECURSIVE CkanLoop(_, _, _, _)
CkanLoop(records, i, items, u) ==
  IF i > Len(records) THEN Returns(items, u)
  ELSE LET rec == records[i]
           title == Get(rec, "oggetto", <<>>)
           deadline == Get(rec, "scadenza", Str("empty"))
       IN  IF ~_within_next_days(deadline, SCADENZA_GIORNI)
           THEN CkanLoop(records, i + 1, items, u)
           ELSE CkanLoop(records, i + 1,
                  Append(items,
                    Notice(Get(rec, "idGara", Uuid(u)), title,
                           Get(rec, "stazioneAppaltante", "PAT"),
                           OrAperto(deadline),
                           Get(rec, "importoBaseAsta", "-"), _guess_tags(title),
                           Get(rec, "urlBando", Get(rec, "urlGara", "")))),
                  u + 1)

fetch_ckan(resp, u) ==
  IF resp.status # "ok" THEN Raises(u) ELSE CkanLoop(resp.body, 1, <<>>, u)

AltoAdigeBase == "https://www.bandi-altoadige.it/"

\* the loops of fetch_altoadige: pages from p on, cards of page p from c on.
\* A page that cannot be fetched is skipped; title_el.find("a")["href"]
\* raises KeyError on an anchor without href.
RECURSIVE AltoAdigeLoop(_, _, _, _, _)
AltoAdigeLoop(pages, p, c, items, u) ==
  IF p > Pages THEN Returns(items, u)
  ELSE IF pages[p].status # "ok" \/ c > Len(pages[p].body)
  THEN AltoAdigeLoop(pages, p + 1, 1, items, u)
  ELSE LET card == pages[p].body[c]
           url == AltoAdigeBase \o "?page=" \o ToString(p) \o "&search=eventi"
           has_h2 == "h2" \in DOMAIN card
           title == IF has_h2 THEN strip(card.h2.text) ELSE SenzaTitolo
           has_a == has_h2 /\ "a" \in DOMAIN card.h2
           deadline == IF "scadenza" \in DOMAIN card THEN card.scadenza ELSE Aperto
       IN  IF has_a /\ "href" \notin DOMAIN card.h2.a THEN Raises(u)
           ELSE IF ~_within_next_days(deadline, SCADENZA_GIORNI)
           THEN AltoAdigeLoop(pages, p, c + 1, items, u)
           ELSE AltoAdigeLoop(pages, p, c + 1,
                  Append(items,
                    Notice(Uuid(u), title, "Provincia Autonoma di Bolzano / Altri",
                           deadline, "-", _guess_tags(title),
                           IF has_a THEN AltoAdigeBase \o card.h2.a.href ELSE url)),
                  u + 1)

fetch_altoadige(pages, u) == AltoAdigeLoop(pages, 1, 1, <<>>, u)

\* re.search(r"scadenza:?\s*(\d{2}/\d{2}/\d{4})", title, re.I): group(1) of
\* the first match, or "Aperto"
ScadenzaOf(title) ==
  LET hits == {i \in 1..Len(title) : title[i] \in DOMAIN ScadenzaGroup}
  IN  IF hits = {} THEN Aperto
      ELSE ScadenzaGroup[title[CHOOSE i \in hits : \A j \in hits : i <= j]]

\* the loop of fetch_pat over the feed's items, from item i on; item.title
\* is None on an item without <title>, and None.text raises AttributeError
RECURSIVE PatLoop(_, _, _, _)
PatLoop(feed, i, items, u) ==
  IF i > Len(feed) THEN Returns(items, u)
  ELSE LET item == feed[i]
           title == _clean_html(item.title)
           link == item.link
           deadline_str == ScadenzaOf(title)
       IN  IF "title" \notin DOMAIN item \/ "link" \notin DOMAIN item
           THEN Raises(u)
           ELSE IF ~_within_next_days(deadline_str, SCADENZA_GIORNI)
           THEN PatLoop(feed, i + 1, items, u)
           ELSE PatLoop(feed, i + 1,
                  Append(items,
                    Notice(link, title, "Provincia Autonoma di Trento (PAT)",
                           deadline_str, "-", _guess_tags(title), link)),
                  u)

\* a feed that cannot be fetched is an empty DataFrame, returned
fetch_pat(resp, u) ==
  IF resp.status # "ok" THEN Returns(<<>>, u)
  ELSE PatLoop(SubSeq(resp.body, 1, IF Len(resp.body) < PatLimit
                                     THEN Len(resp.body) ELSE PatLimit),
               1, <<>>, u)

\* ------------------------------------------------------------- aggregator
\* pd.concat(dfs, ignore_index=True)
RECURSIVE concat(_, _)
concat(dfs, n) == IF n > Len(dfs) THEN <<>> ELSE dfs[n] \o concat(dfs, n + 1)

\* a plausible slip: keep="last"
RECURSIVE DropDuplicatesKeepLast(_, _)
DropDuplicatesKeepLast(df, i) ==
  IF i > Len(df) THEN <<>>
  ELSE (IF \E j \in (i + 1)..Len(df) : df[j].id = df[i].id
        THEN <<>> ELSE <<df[i]>>) \o DropDuplicatesKeepLast(df, i + 1)

\* df.drop_duplicates(subset=["id"]), keep="first", from row i on
RECURSIVE drop_duplicates(_, _)
drop_duplicates(df, i) ==
  IF i > Len(df) THEN <<>>
  ELSE (IF \E j \in 1..(i - 1) : df[j].id = df[i].id
        THEN <<>> ELSE <<df[i]>>) \o drop_duplicates(df, i + 1)

\* a sort key: a datetime, naive or aware, or datetime.max (naive)
DatetimeMax == [aware |-> FALSE, max |-> TRUE, day |-> 0]
Datetime(dt) == [aware |-> dt.aware, max |-> FALSE, day |-> dt.day]

\* load_bandi._key: the parse here is not fuzzy
_key(row) ==
  IF row.deadline.kind = "aperto" THEN DatetimeMax
  ELSE LET dt == dtparse(row.deadline, FALSE)
       IN  IF dt.ok THEN Datetime(dt) ELSE DatetimeMax

\* a < b on datetimes of one kind
Earlier(a, b) == ~a.max /\ (b.max \/ a.day < b.day)

\* df.sort_values("_sort") with the default kind="quicksort", which is not a
\* stable sort: rows ascend by key, and rows of equal keys come in an order
\* the build's sorting routine decides.  ties = "kept" leaves them as they
\* were, ties = "reversed" turns them round.
sort_values(df, keys, ties) ==
  LET before(j, i) ==
        \/ Earlier(keys[j], keys[i])
        \/ /\ keys[j] = keys[i]
           /\ IF ties = "kept" THEN j < i ELSE j > i
      rank(i) == 1 + Cardinality({j \in 1..Len(df) : before(j, i)})
  IN  [r \in 1..Len(df) |-> df[CHOOSE i \in 1..Len(df) : rank(i) = r]]

\* what a call of load_bandi comes to
Returned(df) == [raised |-> FALSE, df |-> df]
Raised == [raised |-> TRUE, df |-> <<>>]

\* load_bandi after its loop (lines 227-242).  Two statements can raise:
\* on a frame without rows, hence without columns, df.apply(_key, axis=1)
\* is an empty DataFrame and df["_sort"] = <DataFrame without columns> is a
\* ValueError; ordering an aware and a naive datetime is a TypeError.
Aggregate(dfs, ties) ==
  IF dfs = <<>> THEN Returned(<<>>)
  ELSE LET df == drop_duplicates(concat(dfs, 1), 1)
           keys == [i \in 1..Len(df) |-> _key(df[i])]
       IN  IF df = <<>> THEN Raised
           ELSE IF \E i, j \in 1..Len(df) : keys[i].aware # keys[j].aware
           THEN Raised
           ELSE Returned(sort_values(df, keys, ties))

\* ---------------------------------------------------------- state machine
VARIABLES
  snapshot,   \* what each source answers, fixed by the first call's requests
  ties,       \* how this build's sort orders rows of equal keys
  pc,         \* where load_bandi stands
  dfs,        \* load_bandi's list of the adapters' frames
  warnings,   \* the st.warning calls of the running or last call
  uuid,       \* uuid4 tokens drawn so far
  results,    \* what each finished call of load_bandi came to
  ret         \* a helper called on its own: its arguments and value

vars == <<snapshot, ties, pc, dfs, warnings, uuid, results, ret>>

NoCall == [fn |-> "none"]

\* titles of up to MaxWords words, joined by blanks
Words ==
  << <<"H", "a", "c", "k", "a", "t", "h", "o", "n">>,
     <<"V", "e", "r", "d", "i", "c", "t">>,
     <<"F", "I", "E", "R", "A">>,
     <<"c", "u", "l", "t", "u", "r", "a", "l", "e">>,
     <<"B", "a", "n", "d", "o">>,
     <<"t", "u", "r", "i", "s", "t", "i", "c", "a">>,
     <<"E", "v", "e", "n", "t", "i">>,
     <<"P", "r", "o", "m", "o", "z", "i", "o", "n", "e">> >>
RECURSIVE Join(_, _)
Join(ws, n) ==
  IF n > Len(ws) THEN <<>>
  ELSE (IF n > 1 THEN <<" ">> ELSE <<>>) \o Words[ws[n]] \o Join(ws, n + 1)
Titles == {Join(ws, 1) : ws \in SeqsUpTo(1..Len(Words), MaxWords)}

\* window lengths handed to _within_next_days
Windows == {0, 10, SCADENZA_GIORNI}

\* raw items the snapshot holds so far
Held ==
  Len(snapshot.trento.body) + Len(snapshot.ckan.body)
    + Cards(snapshot.altoadige, 1) + Len(snapshot.pat.body)

Init ==
  /\ snapshot = [trento |-> Unset, ckan |-> Unset,
                 altoadige |-> [p \in 1..Pages |-> Unset], pat |-> Unset]
  /\ ties \in {"kept", "reversed"}
  /\ pc = "idle"
  /\ dfs = <<>>
  /\ warnings = <<>>
  /\ uuid = 0
  /\ results = <<>>
  /\ ret = NoCall

\* _guess_tags(text), called on its own
GuessTags ==
  /\ pc = "idle" /\ results = <<>> /\ ret = NoCall
  /\ \E text \in Titles :
       ret' = [fn |-> "_guess_tags", text |-> text, value |-> _guess_tags(text)]
  /\ UNCHANGED <<snapshot, ties, pc, dfs, warnings, uuid, results>>

\* _within_next_days(date_str, days), called on its own
WithinNextDays ==
  /\ pc = "idle" /\ results = <<>> /\ ret = NoCall
  /\ \E date_str \in DeadlineStrings, days \in Windows :
       ret' = [fn |-> "_within_next_days", date_str |-> date_str, days |-> days,
               value |-> _within_next_days(date_str, days)]
  /\ UNCHANGED <<snapshot, ties, pc, dfs, warnings, uuid, results>>

\* load_bandi(): dfs = []
LoadBandi ==
  /\ pc = "idle" /\ ret = NoCall /\ Len(results) < MaxCalls
  /\ pc' = "fetch_trento"
  /\ dfs' = <<>>
  /\ warnings' = <<>>
  /\ UNCHANGED <<snapshot, ties, uuid, results, ret>>

\* one turn of the loop of load_bandi: try: dfs.append(fetch_fn())
\* except Exception: st.warning(f"Errore in {fetch_fn.__name__}: ...")
Try(name, r, next) ==
  /\ IF r.raised
     THEN warnings' = Append(warnings, name) /\ dfs' = dfs
     ELSE dfs' = Append(dfs, r.df) /\ warnings' = warnings
  /\ uuid' = r.uuid
  /\ pc' = next
  /\ UNCHANGED <<ties, results, ret>>

FetchTrento ==
  /\ pc = "fetch_trento"
  /\ \E resp \in IF results = <<>> THEN TrentoResponses(MaxItems - Held)
                 ELSE {snapshot.trento} :
       /\ snapshot' = [snapshot EXCEPT !.trento = resp]
       /\ Try("fetch_trento", fetch_trento(resp, uuid), "fetch_ckan")

FetchCkan ==
  /\ pc = "fetch_ckan"
  /\ \E resp \in IF results = <<>> THEN CkanResponses(MaxItems - Held)
                 ELSE {snapshot.ckan} :
       /\ snapshot' = [snapshot EXCEPT !.ckan = resp]
       /\ Try("fetch_ckan", fetch_ckan(resp, uuid), "fetch_altoadige")

FetchAltoAdige ==
  /\ pc = "fetch_altoadige"
  /\ \E resp \in IF results = <<>> THEN AltoAdigeResponses(MaxItems - Held)
                 ELSE {snapshot.altoadige} :
       /\ snapshot' = [snapshot EXCEPT !.altoadige = resp]
       /\ Try("fetch_altoadige", fetch_altoadige(resp, uuid), "fetch_pat")

FetchPat ==
  /\ pc = "fetch_pat"
  /\ \E resp \in IF results = <<>> THEN PatResponses(MaxItems - Held)
                 ELSE {snapshot.pat} :
       /\ snapshot' = [snapshot EXCEPT !.pat = resp]
       /\ Try("fetch_pat", fetch_pat(resp, uuid), "aggregate")

\* the rest of load_bandi: concat, drop_duplicates, sort, return
Return ==
  /\ pc = "aggregate"
  /\ results' = Append(results, Aggregate(dfs, ties))
  /\ pc' = "idle"
  /\ UNCHANGED <<snapshot, ties, dfs, warnings, uuid, ret>>

Next ==
  \/ GuessTags
  \/ WithinNextDays
  \/ LoadBandi
  \/ FetchTrento
  \/ FetchCkan
  \/ FetchAltoAdige
  \/ FetchPat
  \/ Return

Spec == Init /\ [][Next]_vars

\* ------------------------------------------------------------------ claims
Adapters == {"fetch_trento", "fetch_ckan", "fetch_altoadige", "fetch_pat"}

\* a call of load_bandi has ended and none is running: dfs and warnings
\* are those of the call results ends with
Ended == pc = "idle" /\ results # <<>>
Last == results[Len(results)]
Concatenated == concat(dfs, 1)
Range(f) == {f[i] : i \in DOMAIN f}

\* the source of an adapter did not answer, or answered what the adapter
\* cannot read
SourceFailed(name) ==
  CASE name = "fetch_trento" -> snapshot.trento.status # "ok"
    [] name = "fetch_ckan" -> snapshot.ckan.status # "ok"
    [] name = "fetch_altoadige" ->
         \E p \in 1..Pages :
           \/ snapshot.altoadige[p].status # "ok"
           \/ \E c \in Range(snapshot.altoadige[p].body) :
                "h2" \in DOMAIN c /\ "a" \in DOMAIN c.h2
                  /\ "href" \notin DOMAIN c.h2.a
    [] name = "fetch_pat" ->
         \/ snapshot.pat.status # "ok"
         \/ \E i \in Range(snapshot.pat.body) : "title" \notin DOMAIN i

\* the rows of df that no earlier row of df shares its id with
FirstOfEachId(df) ==
  {df[i] : i \in {k \in 1..Len(df) : \A j \in 1..(k - 1) : df[j].id # df[k].id}}

\* C1: when no adapter succeeds (each raises or returns an empty frame),
\* load_bandi returns an empty collection and does not raise.
C1_EmptyWhenNoAdapterSucceeds ==
  (Ended /\ \A n \in 1..Len(dfs) : dfs[n] = <<>>)
    => (~Last.raised /\ Last.df = <<>>)

\* C2: when exactly one adapter fails, load_bandi does not raise and returns
\* the deduplicated union of the other adapters' records, which is non-empty
\* when one of them produced a record.
C2_PartialFailure ==
  (Ended /\ \E a \in Adapters :
              SourceFailed(a) /\ \A b \in Adapters \ {a} : ~SourceFailed(b))
    => /\ ~Last.raised
       /\ Range(Last.df) = FirstOfEachId(Concatenated)
       /\ (Concatenated # <<>> => Last.df # <<>>)

C4_SortedByParsedDeadline ==
  (Ended /\ ~Last.raised)
    => \A r, s \in 1..Len(Last.df) :
         r < s =>
           LET a == dtparse(Last.df[r].deadline, TRUE)
               b == dtparse(Last.df[s].deadline, TRUE)
           IN  /\ (a.ok /\ b.ok) => a.day <= b.day
               /\ ~(~a.ok /\ b.ok)

\* C5: two output records of equal sort keys stand in the order they had in
\* the deduplicated concatenation of the adapter outputs.
C5_StableSort ==
  (Ended /\ ~Last.raised)
    => LET before == drop_duplicates(Concatenated, 1)
           at(row) == CHOOSE i \in 1..Len(before) : before[i] = row
       IN  \A r, s \in 1..Len(Last.df) :
             (r < s /\ _key(Last.df[r]) = _key(Last.df[s]))
               => at(Last.df[r]) < at(Last.df[s])

\* C6: _within_next_days(date_str, days) is true iff date_str is empty, or
\* does not parse, or parses to a date not later than today + days; and no
\* record whose deadline parses to a date later than today + 30 days is in
\* the output of load_bandi.
C6_DeadlineFilter ==
  /\ ret.fn = "_within_next_days" =>
       LET dt == dtparse(ret.date_str, TRUE)
       IN  ret.value <=> (ret.date_str.kind = "empty" \/ ~dt.ok \/ dt.day <= ret.days)
  /\ (Ended /\ ~Last.raised) =>
       \A row \in Range(Last.df) :
         LET dt == dtparse(row.deadline, TRUE)
         IN  ~(dt.ok /\ dt.day > SCADENZA_GIORNI)

\* keyword k occurs in text, letter case aside
OccursIn(k, text) ==
  \E o \in 0..(Len(text) - Len(k)) :
    \A p \in 1..Len(k) :
      \/ text[o + p] = k[p]
      \/ text[o + p] \in DOMAIN UpperToLower /\ UpperToLower[text[o + p]] = k[p]

\* tags are the categories of the table with a keyword in text, in table
\* order and once each, or the fallback label alone
TagsOf(text, tags) ==
  LET matching == {n \in 1..Len(ST_TAGS) :
                     \E k \in Range(ST_TAGS[n].keywords) : OccursIn(k, text)}
  IN  /\ tags # <<>>
      /\ IF matching = {} THEN tags = <<"varie">>
         ELSE /\ Len(tags) = Cardinality(matching)
              /\ \A p \in 1..Len(tags) :
                   \E n \in matching :
                     /\ tags[p] = ST_TAGS[n].tag
                     /\ Cardinality({m \in matching : m < n}) = p - 1

\* C7: _guess_tags returns a non-empty list: the categories with a keyword
\* that is a case-insensitive substring of the title, in table order without
\* duplicates, or the single fallback label; every Notice an adapter builds
\* has non-empty tags.
C7_TagsOfTitle ==
  /\ ret.fn = "_guess_tags" => TagsOf(ret.text, ret.value)
  /\ \A n \in 1..Len(dfs) : \A row \in Range(dfs[n]) :
       row.tags # <<>> /\ TagsOf(row.title, row.tags)

\* C7's case: "Hackathon FIERA" got its two categories, in table order
C7_Witness ==
  /\ ret.fn = "_guess_tags"
  /\ ret.text = Join(<<1, 3>>, 1)
  /\ ret.value = <<"eventi", "tech">>

\* C8: two calls of load_bandi against one snapshot come to the same ordered
\* collection, ids included.
C8_Idempotent == Len(results) >= 2 => results[1] = results[2]

\* C9: no adapter lets a failure of its source escape as an exception: the
\* adapter returns an empty result.
C9_AdaptersNeverRaise ==
  /\ warnings = <<>>
  /\ (Ended /\ Len(dfs) = 4) =>
       /\ snapshot.trento.status # "ok" => dfs[1] = <<>>
       /\ snapshot.ckan.status # "ok" => dfs[2] = <<>>
       /\ SourceFailed("fetch_altoadige") => dfs[3] = <<>>
       /\ SourceFailed("fetch_pat") => dfs[4] = <<>>

\* C10: a warning naming the source is surfaced for every source that
\* failed during load_bandi.
C10_WarningForEachFailure ==
  Ended => \A a \in Adapters : SourceFailed(a) => a \in Range(warnings)
====
